---- MODULE Spec2Model ----
(***************************************************************************)
(* Model of the sampling pipeline of data/scripts/mineral_ai_preprocessor: *)
(* resolve_aoi -> build_sampling_stack -> sample_stack -> write_outputs.   *)
(* An ee.Image is modelled by the sequence of its bands; a band is a       *)
(* record [name, content]; the remote backend is modelled by the outcome   *)
(* it gives to each request the code issues.                               *)
(***************************************************************************)
EXTENDS Integers, Sequences, FiniteSets, TLC

VARIABLES
    config,                 \* the SamplingConfig of the run
    pc,                     \* position of the run in main()
    raised,                 \* exception that left the last step, or "none"
    backend,                \* outcomes the backend gave to build_sampling_stack
    aoi,                    \* value returned by resolve_aoi
    stack,                  \* ee.Image returned by build_sampling_stack
    availability_reports,   \* Dict[str, bool] returned by build_sampling_stack
    availability_images,    \* the flags averaged into data_availability
    probes,                 \* asset_exists calls made: id -> [lookup, result]
    df,                     \* DataFrame returned by sample_stack
    env,                    \* what the file system and the backend answered
                            \* to resolve_aoi and sample_stack
    calls,                  \* backend / file-system requests issued, in order
    files,                  \* files written by write_outputs: kind -> payload
    stages,                 \* outcome of each stage of init_hybrid_system
    responder,              \* the callable init_hybrid_system returned
    exchange,               \* the last call of that callable and its reply
    safe_args,              \* arguments of a safe_* call on a bare image
    safe_result             \* the bands that call returned

vars == <<config, pc, raised, backend, aoi, stack, availability_reports,
          availability_images, probes, df, env, calls, files,
          stages, responder, exchange, safe_args, safe_result>>

(* the hybrid pipeline and the bare safe_* calls are not part of a run of  *)
(* the sample command                                                      *)
hybrid_vars == <<stages, responder, exchange>>
safe_vars == <<safe_args, safe_result>>

None == "None"
Untouched == "untouched"
NoFunction == [x \in {} |-> TRUE]
NoFrame == [rows |-> 0, columns |-> {}]
NoEnv == [file_exists |-> FALSE, gaul |-> {}, rows |-> 0]

(* the values of the hybrid pipeline's and the safe_* calls' variables     *)
(* before anything has been called                                         *)
NoStages ==
    [imports |-> Untouched, fake |-> Untouched, embeddings |-> Untouched,
     index_dir |-> Untouched, load |-> Untouched, from_texts |-> Untouched,
     workflow |-> Untouched, agent |-> Untouched]
NoResponder ==
    [raised |-> "none", kind |-> "unset", reason |-> << >>,
     embeddings |-> None, vector_store |-> None,
     agent_executor |-> None, agent_error |-> None]
NoValue == [type |-> "NoneType", text |-> << >>]
NoWorkflowRun ==
    [ran |-> FALSE, raised |-> FALSE, is_dict |-> FALSE, has_answer |-> FALSE,
     value |-> NoValue]
NoAgentRun ==
    [ran |-> FALSE, raised |-> FALSE, is_dict |-> FALSE, messages |-> "none",
     has_content |-> FALSE, content |-> NoValue]
NoExchange ==
    [asked |-> FALSE, query |-> None, workflow |-> NoWorkflowRun,
     agent |-> NoAgentRun,
     reply |-> [raised |-> "none", value |-> NoValue, invoked |-> << >>]]
NoSafeArgs == [image |-> << >>, first |-> None, second |-> None, name |-> None]

NoHybrid == stages = NoStages /\ responder = NoResponder /\ exchange = NoExchange
NoSafeResult == [op |-> None, image |-> << >>]
NoSafeCall == safe_args = NoSafeArgs /\ safe_result = NoSafeResult

run_vars == <<config, pc, raised, backend, aoi, stack, availability_reports,
              availability_images, probes, df, env, calls, files>>

----------------------------------------------------------------------------
(* Module constants of the script *)

DEFAULT_BANDS == <<"B2", "B3", "B4", "B5", "B6", "B7", "B8", "B11", "B12">>
USAGE_BANDS == <<"B2", "B3", "B4", "B8">>

S2_SR == "COPERNICUS/S2_SR"
S2_SR_HARMONIZED == "COPERNICUS/S2_SR_HARMONIZED"
SRTM == "USGS/SRTMGL1_003"
S1_GRD == "COPERNICUS/S1_GRD"
EMIT == "NASA/EMIT/SurfaceMineralogy"
EMAG2 == "NOAA/NGDC/EMAG2_2"
GRACE == "NASA/GRACE/MASS_GRIDS"
SMAP == "NASA_USDA/HSL/SMAP_soil_moisture"

----------------------------------------------------------------------------
(* Band contents *)

Const(n, d) == [kind |-> "const", num |-> n, den |-> d]
Content(k) == [kind |-> k, num |-> 0, den |-> 1]
Band(n, c) == [name |-> n, content |-> c]

Rename(band, n) == Band(n, band.content)

BandNames(image) == [i \in DOMAIN image |-> image[i].name]
BandSet(image) == {image[i].name : i \in DOMAIN image}
HasBand(image, b) == b \in BandSet(image)
GetBand(image, b) == image[CHOOSE i \in DOMAIN image : image[i].name = b]

(* image.select(names): the named bands in the order asked; a name the image *)
(* lacks has no default and stays unresolved                                *)
Select(image, names) ==
    [i \in DOMAIN names |->
        IF HasBand(image, names[i]) THEN GetBand(image, names[i])
        ELSE Band(names[i], Content("missing"))]

RECURSIVE SumSeq(_)
SumSeq(s) == IF s = <<>> THEN 0 ELSE Head(s) + SumSeq(Tail(s))

Put(d, k, v) == [x \in DOMAIN d \cup {k} |-> IF x = k THEN v ELSE d[x]]

----------------------------------------------------------------------------
(* AvailabilityProbe and SafeFeatureOps *)

(* ee.data.getInfo(asset_id): completes for a catalog entry the backend     *)
(* serves, raises otherwise                                                 *)
GetInfoRaises(lookup) == lookup \in {"missing", "probe_error"}

asset_exists_except_true(lookup) == [raised |-> "none", value |-> TRUE]

asset_exists(lookup) ==
    IF GetInfoRaises(lookup)
    THEN [raised |-> "none", value |-> FALSE]
    ELSE [raised |-> "none", value |-> TRUE]

availability_flag(condition) == IF condition THEN 1 ELSE 0

safe_band(image, band, default) ==
    IF HasBand(image, band) THEN GetBand(image, band)
    ELSE Band(band, default)

safe_normalized_difference(image, band_pair, name) ==
    IF \A i \in DOMAIN band_pair : HasBand(image, band_pair[i])
    THEN Band(name, Content("nd01"))
    ELSE Band(name, Const(0, 1))

safe_ratio_any_band(image, num_band, den_band, name) ==
    IF HasBand(image, num_band) \/ HasBand(image, den_band)
    THEN Band(name, Content("ratio01"))
    ELSE Band(name, Const(0, 1))

safe_ratio(image, num_band, den_band, name) ==
    IF HasBand(image, num_band) /\ HasBand(image, den_band)
    THEN Band(name, Content("ratio01"))
    ELSE Band(name, Const(0, 1))

compute_indices_four(image) ==
    << safe_normalized_difference(image, <<"B8", "B4">>, "NDVI"),
       safe_normalized_difference(image, <<"B3", "B8">>, "NDWI"),
       safe_ratio(image, "B11", "B12", "ClayIndex"),
       safe_ratio(image, "B4", "B2", "IronOxideIndex") >>

compute_indices(image) ==
    << safe_normalized_difference(image, <<"B8", "B4">>, "NDVI"),
       safe_normalized_difference(image, <<"B3", "B8">>, "NDWI"),
       safe_ratio(image, "B11", "B12", "ClayIndex"),
       safe_ratio(image, "B4", "B2", "IronOxideIndex"),
       safe_ratio(image, "B8", "B11", "SilicaIndex") >>

(* ee.Image("USGS/SRTMGL1_003") is used without any probe: the bands are    *)
(* declared whatever the backend holds                                      *)
terrain_features(srtm) ==
    LET c == IF srtm = "data" THEN Content("terrain") ELSE Content("missing")
    IN << Band("elevation", c), Band("slope_norm", c), Band("aspect_norm", c) >>

(* collection.size().getInfo() of an optional source's filtered collection *)
SizeRaises(outcome) == outcome = "size_error"
HasData(outcome) == outcome = "data"
Lookup(outcome) ==
    IF outcome \in {"missing", "probe_error"} THEN outcome ELSE "present"

sentinel1_features_catalog_quality(outcome) ==
    IF ~asset_exists(Lookup(outcome)).value
    THEN [raised |-> "none",
          ratio |-> Band("S1_VV_minus_VH", Const(0, 1)),
          quality |-> Band("S1_quality", Const(0, 1)),
          available |-> FALSE]
    ELSE LET median == IF HasData(outcome)
                       THEN << Band("VV", Content("median")),
                               Band("VH", Content("median")) >>
                       ELSE << >>
             vv == safe_band(median, "VV", Const(-20, 1))
             vh == safe_band(median, "VH", Const(-25, 1))
             ratio == IF vv.content.kind = "const" /\ vh.content.kind = "const"
                      THEN Const(2, 3) \* (-20 - -25)/30 + 0.5
                      ELSE Content("ratio")
             quality == availability_flag(TRUE)
         IN  IF SizeRaises(outcome)
             THEN [raised |-> "EEException",
                   ratio |-> Band("S1_VV_minus_VH", ratio),
                   quality |-> Band("S1_quality", Const(quality, 1)),
                   available |-> FALSE]
             ELSE [raised |-> "none",
                   ratio |-> Band("S1_VV_minus_VH", ratio),
                   quality |-> Band("S1_quality", Const(quality, 1)),
                   available |-> HasData(outcome)]

sentinel1_features(outcome) ==
    IF ~asset_exists(Lookup(outcome)).value
    THEN [raised |-> "none",
          ratio |-> Band("S1_VV_minus_VH", Const(0, 1)),
          quality |-> Band("S1_quality", Const(0, 1)),
          available |-> FALSE]
    ELSE LET median == IF HasData(outcome)
                       THEN << Band("VV", Content("median")),
                               Band("VH", Content("median")) >>
                       ELSE << >>
             vv == safe_band(median, "VV", Const(-20, 1))
             vh == safe_band(median, "VH", Const(-25, 1))
             ratio == IF vv.content.kind = "const" /\ vh.content.kind = "const"
                      THEN Const(2, 3) \* (-20 - -25)/30 + 0.5
                      ELSE Content("ratio")
             quality == availability_flag(HasData(outcome))
         IN  IF SizeRaises(outcome)
             THEN [raised |-> "EEException",
                   ratio |-> Band("S1_VV_minus_VH", ratio),
                   quality |-> Band("S1_quality", Const(quality, 1)),
                   available |-> FALSE]
             ELSE [raised |-> "none",
                   ratio |-> Band("S1_VV_minus_VH", ratio),
                   quality |-> Band("S1_quality", Const(quality, 1)),
                   available |-> HasData(outcome)]

emit_features(outcome) ==
    IF ~asset_exists(Lookup(outcome)).value
    THEN [raised |-> "none",
          mean |-> Band("EMIT_mean", Const(0, 1)),
          available |-> FALSE]
    ELSE LET mean_img == IF HasData(outcome) THEN Content("mean")
                         ELSE Const(0, 1)
         IN  IF SizeRaises(outcome)
             THEN [raised |-> "EEException",
                   mean |-> Band("EMIT_mean", mean_img),
                   available |-> FALSE]
             ELSE [raised |-> "none",
                   mean |-> Band("EMIT_mean", mean_img),
                   available |-> HasData(outcome)]

----------------------------------------------------------------------------
(* AOIResolver *)

GAUL_DATASET_TEMPLATE(level) == "FAO/GAUL/2015/level" \o ToString(level)
GAUL_FIELD_BY_LEVEL == [l \in {0, 1, 2} |->
    CASE l = 0 -> "ADM0_NAME" [] l = 1 -> "ADM1_NAME" [] l = 2 -> "ADM2_NAME"]
GaulField(level) ==
    IF level \in DOMAIN GAUL_FIELD_BY_LEVEL THEN GAUL_FIELD_BY_LEVEL[level]
    ELSE GAUL_FIELD_BY_LEVEL[1]

(* Python truthiness of an optional string / Path *)
Truthy(v) == v # None /\ v # ""

FilterEq(collection, field, value) == {f \in collection : f[field] = value}

Call(op, target) == [op |-> op, target |-> target]

(* lines 207-210: the explicit local boundary file *)
LocalFile(c, e) ==
    IF ~e.file_exists
    THEN [raised |-> "FileNotFoundError", aoi |-> None,
          calls |-> << Call("exists", c.geojson) >>]
    ELSE [raised |-> "none",
          aoi |-> [provenance |-> "geojson", ref |-> c.geojson, features |-> {}],
          calls |-> << Call("exists", c.geojson),
                       Call("geojson_to_ee", c.geojson) >>]

(* lines 212-213: the remote asset reference, not evaluated here *)
RemoteAsset(c) ==
    [raised |-> "none",
     aoi |-> [provenance |-> "asset", ref |-> c.aoi_asset, features |-> {}],
     calls |-> << >>]

GaulResult(dataset, filtered) ==
    IF Cardinality(filtered) = 0
    THEN [raised |-> "ValueError", aoi |-> None,
          calls |-> << Call("size", dataset) >>]
    ELSE [raised |-> "none",
          aoi |-> [provenance |-> "gaul", ref |-> dataset, features |-> filtered],
          calls |-> << Call("size", dataset) >>]

GaulLookup_name_only(c, e) ==
    GaulResult(GAUL_DATASET_TEMPLATE(c.aoi_level),
               FilterEq(e.gaul, GaulField(c.aoi_level), c.aoi_name))

(* lines 215-229: the administrative-name lookup *)
GaulLookup(c, e) ==
    LET by_name == FilterEq(e.gaul, GaulField(c.aoi_level), c.aoi_name)
        filtered == IF c.aoi_level > 0 /\ Truthy(c.aoi_country)
                    THEN FilterEq(by_name, "ADM0_NAME", c.aoi_country)
                    ELSE by_name
    IN  GaulResult(GAUL_DATASET_TEMPLATE(c.aoi_level), filtered)

resolve_aoi_asset_first(c, e) ==
    IF Truthy(c.aoi_asset) THEN RemoteAsset(c)
    ELSE IF c.geojson # None THEN LocalFile(c, e)
    ELSE GaulLookup(c, e)

resolve_aoi(c, e) ==
    IF c.geojson # None THEN LocalFile(c, e)
    ELSE IF Truthy(c.aoi_asset) THEN RemoteAsset(c)
    ELSE GaulLookup(c, e)

----------------------------------------------------------------------------
(* Sampler *)

sample_stack_unchecked(c, image, rows) ==
    [raised |-> "none",
     df |-> [rows |-> rows, columns |-> BandSet(image) \cup {"geometry"}],
     calls |-> << Call("sample", c.sample_count) >>]

(* stack.sample(numPixels=sample_count, geometries=True) gives `rows`      *)
(* features carrying the stack's bands and the point geometry;             *)
(* geemap.ee_to_pandas turns them into the rows of a DataFrame             *)
sample_stack(c, image, rows) ==
    LET frame == [rows |-> rows, columns |-> BandSet(image) \cup {"geometry"}]
        requests == << Call("sample", c.sample_count) >>
    IN  IF frame.rows = 0
        THEN [raised |-> "RuntimeError", df |-> NoFrame, calls |-> requests]
        ELSE [raised |-> "none", df |-> frame, calls |-> requests]

----------------------------------------------------------------------------
(* StackAssembler *)

PrimaryOutcomes == {"data", "empty", "error"}
SrtmOutcomes == {"data", "missing"}
SourceOutcomes == {"missing", "probe_error", "empty", "data", "size_error"}
ImageOutcomes == {"missing", "probe_error", "data"}

StdDevName(b) == b \o "_stdDev"

(* collection.median() of the primary collection: the asset's bands when   *)
(* the filtered collection has images, no band at all when it is empty;    *)
(* the cloud mask and the 1/10000 scaling are mapped on COPERNICUS/S2_SR   *)
PrimaryImage(c, primary) ==
    LET kind == IF c.asset_id = S2_SR THEN "masked_scaled" ELSE "median"
    IN  IF primary = "data"
        THEN [i \in DOMAIN DEFAULT_BANDS |-> Band(DEFAULT_BANDS[i], Content(kind))]
        ELSE << >>

TemporalStd(c, primary) ==
    LET selected == Select(PrimaryImage(c, primary), c.bands)
    IN  [i \in DOMAIN c.bands |->
            Band(StdDevName(c.bands[i]),
                 IF selected[i].content.kind = "missing" THEN Content("missing")
                 ELSE Content("stdDev"))]

(* One `if asset_exists(id): ... else: ...` block of a collection source   *)
(* (GRACE, SMAP): the band is appended only in the present branch          *)
CollectionBlock(id, outcome, band, name) ==
    IF asset_exists(Lookup(outcome)).value
    THEN [raised |-> IF SizeRaises(outcome) THEN "EEException" ELSE "none",
          derived |-> << Rename(safe_band(IF HasData(outcome)
                                           THEN << Band(band, Content("mean")) >>
                                           ELSE << >>,
                                           band, Const(0, 1)), name) >>,
          images |-> << availability_flag(HasData(outcome)) >>,
          report |-> HasData(outcome)]
    ELSE [raised |-> "none", derived |-> << >>, images |-> << >>,
          report |-> FALSE]

(* The EMAG2 block: a single ee.Image, no size query *)
ImageBlock(id, outcome, name) ==
    IF asset_exists(Lookup(outcome)).value
    THEN [raised |-> "none",
          derived |-> << Band(name, Content("abs_norm")) >>,
          images |-> << availability_flag(TRUE) >>,
          report |-> TRUE]
    ELSE [raised |-> "none", derived |-> << >>, images |-> << >>,
          report |-> FALSE]

Probe(outcome) ==
    [lookup |-> Lookup(outcome), completed |-> ~GetInfoRaises(Lookup(outcome)),
     result |-> asset_exists(Lookup(outcome))]

(* Result of the build when it stops with an exception: nothing is returned *)
Abort(exc, probed) ==
    [raised |-> exc, stack |-> << >>, reports |-> NoFunction,
     images |-> << >>, probes |-> probed]

build_sampling_stack(c, b) ==
    LET base_image == PrimaryImage(c, b.primary)
        base == Select(base_image, c.bands)
        im0 == << availability_flag(b.primary = "data") >>
        rp0 == Put(NoFunction, c.asset_id, b.primary = "data")
        d1 == IF c.include_indices THEN compute_indices(base_image) ELSE << >>
        d2 == d1 \o (IF c.include_temporal_stats
                     THEN TemporalStd(c, b.primary) ELSE << >>)
        d3 == d2 \o (IF c.include_terrain THEN terrain_features(b.srtm) ELSE << >>)
        im3 == im0 \o (IF c.include_terrain THEN << availability_flag(TRUE) >>
                       ELSE << >>)
        rp3 == IF c.include_terrain THEN Put(rp0, SRTM, TRUE) ELSE rp0
        s1 == sentinel1_features(b.s1)
        d4 == d3 \o (IF c.include_s1 THEN << s1.ratio, s1.quality >> ELSE << >>)
        im4 == im3 \o (IF c.include_s1
                       THEN << availability_flag(s1.available) >> ELSE << >>)
        rp4 == IF c.include_s1 THEN Put(rp3, S1_GRD, s1.available) ELSE rp3
        pr4 == IF c.include_s1 THEN Put(NoFunction, S1_GRD, Probe(b.s1))
               ELSE NoFunction
        em == emit_features(b.emit)
        d5 == d4 \o (IF c.include_emit THEN << em.mean >> ELSE << >>)
        im5 == im4 \o (IF c.include_emit
                       THEN << availability_flag(em.available) >> ELSE << >>)
        rp5 == IF c.include_emit THEN Put(rp4, EMIT, em.available) ELSE rp4
        pr5 == IF c.include_emit THEN Put(pr4, EMIT, Probe(b.emit)) ELSE pr4
        mg == ImageBlock(EMAG2, b.emag, "EMAG2_norm")
        d6 == d5 \o mg.derived
        im6 == im5 \o mg.images
        rp6 == Put(rp5, EMAG2, mg.report)
        pr6 == Put(pr5, EMAG2, Probe(b.emag))
        gr == CollectionBlock(GRACE, b.grace, "lwe_thickness_csr", "GRACE_water")
        d7 == d6 \o gr.derived
        im7 == im6 \o gr.images
        rp7 == Put(rp6, GRACE, gr.report)
        pr7 == Put(pr6, GRACE, Probe(b.grace))
        sm == CollectionBlock(SMAP, b.smap, "susm", "SMAP_moisture")
        d8 == d7 \o sm.derived
        im8 == im7 \o sm.images
        rp8 == Put(rp7, SMAP, sm.report)
        pr8 == Put(pr7, SMAP, Probe(b.smap))
        with_derived == IF d8 # << >> THEN base \o d8 ELSE base
        full == IF im8 # << >>
                THEN with_derived \o
                     << Band("data_availability", Const(SumSeq(im8), Len(im8))) >>
                ELSE with_derived
    IN  IF b.primary = "error" THEN Abort("EEException", NoFunction)
        ELSE IF c.include_s1 /\ s1.raised # "none" THEN Abort(s1.raised, pr4)
        ELSE IF c.include_emit /\ em.raised # "none" THEN Abort(em.raised, pr5)
        ELSE IF gr.raised # "none" THEN Abort(gr.raised, pr7)
        ELSE IF sm.raised # "none" THEN Abort(sm.raised, pr8)
        ELSE [raised |-> "none", stack |-> full, reports |-> rp8,
              images |-> im8, probes |-> pr8]

----------------------------------------------------------------------------
(* Inputs *)

MaxSampleCount == 2
MaxFeatures == 2

AOI_NAMES == {"Northern Mindanao", "Philippines"}
AOI_COUNTRIES == {"Philippines", ""}
AOI_ASSETS == {None, "", "users/demo/aoi"}
GEOJSONS == {None, "aoi.geojson"}
ASSET_IDS == {S2_SR, S2_SR_HARMONIZED}
BAND_LISTS == {DEFAULT_BANDS, USAGE_BANDS}

(* SamplingConfig.from_args with the argparse defaults of parse_args *)
DefaultConfig ==
    [asset_id |-> S2_SR, bands |-> DEFAULT_BANDS, sample_count |-> MaxSampleCount,
     include_indices |-> TRUE, include_terrain |-> TRUE, include_s1 |-> TRUE,
     include_emit |-> TRUE, include_temporal_stats |-> TRUE,
     aoi_level |-> 1, aoi_name |-> "Northern Mindanao",
     aoi_country |-> "Philippines", aoi_asset |-> None, geojson |-> None]

AoiConfigs ==
    { [DefaultConfig EXCEPT !.aoi_level = l, !.aoi_name = n, !.aoi_country = k,
                            !.aoi_asset = a, !.geojson = g] :
        l \in {0, 1, 2}, n \in AOI_NAMES, k \in AOI_COUNTRIES,
        a \in AOI_ASSETS, g \in GEOJSONS }

BuildConfigs ==
    { [DefaultConfig EXCEPT !.asset_id = id, !.bands = bs,
                            !.include_indices = i, !.include_temporal_stats = t,
                            !.include_terrain = tr, !.include_s1 = s,
                            !.include_emit = e] :
        id \in ASSET_IDS, bs \in BAND_LISTS, i \in BOOLEAN, t \in BOOLEAN,
        tr \in BOOLEAN, s \in BOOLEAN, e \in BOOLEAN }

(* Outcomes of the requests build_sampling_stack issues, in the order of    *)
(* the code; a source the run never reaches is left untouched               *)
Touch(cond, outcomes) == IF cond THEN outcomes ELSE {Untouched}

Backends(c) ==
    UNION { UNION { UNION { UNION { UNION { UNION {
        { [primary |-> p, srtm |-> t, s1 |-> s, emit |-> e, emag |-> m,
           grace |-> g, smap |-> w] :
            w \in Touch(p # "error" /\ s # "size_error" /\ e # "size_error"
                        /\ g # "size_error", SourceOutcomes) } :
            g \in Touch(p # "error" /\ s # "size_error" /\ e # "size_error",
                        SourceOutcomes) } :
            m \in Touch(p # "error" /\ s # "size_error" /\ e # "size_error",
                        ImageOutcomes) } :
            e \in Touch(c.include_emit /\ p # "error" /\ s # "size_error",
                        SourceOutcomes) } :
            s \in Touch(c.include_s1 /\ p # "error", SourceOutcomes) } :
            t \in Touch(c.include_terrain /\ p # "error", SrtmOutcomes) } :
            p \in PrimaryOutcomes }

ResolvedDefaultAoi ==
    [provenance |-> "gaul", ref |-> "FAO/GAUL/2015/level1",
     features |-> {[fid |-> 1, ADM0_NAME |-> "Philippines",
                    ADM1_NAME |-> "Northern Mindanao", ADM2_NAME |-> None]}]

NoBackend ==
    [primary |-> Untouched, srtm |-> Untouched, s1 |-> Untouched,
     emit |-> Untouched, emag |-> Untouched, grace |-> Untouched,
     smap |-> Untouched]


----------------------------------------------------------------------------
(* The run *)

BuildSamplingStack ==
    /\ pc = "aoi_resolved"
    /\ \E b \in Backends(config) :
        LET r == build_sampling_stack(config, b)
        IN  /\ backend' = b
            /\ raised' = r.raised
            /\ pc' = IF r.raised = "none" THEN "stack_built" ELSE "failed"
            /\ stack' = r.stack
            /\ availability_reports' = r.reports
            /\ availability_images' = r.images
            /\ probes' = r.probes
    /\ UNCHANGED <<config, aoi, df, env, calls, files>>
    /\ UNCHANGED <<hybrid_vars, safe_vars>>

InitBuild ==
    /\ config \in BuildConfigs
    /\ pc = "aoi_resolved"
    /\ raised = "none"
    /\ backend = NoBackend
    /\ aoi = ResolvedDefaultAoi
    /\ stack = << >>
    /\ availability_reports = NoFunction
    /\ availability_images = << >>
    /\ probes = NoFunction
    /\ df = NoFrame
    /\ env = [NoEnv EXCEPT !.gaul = ResolvedDefaultAoi.features]
    /\ calls = << >>
    /\ files = NoFunction
    /\ NoHybrid /\ NoSafeCall

SpecBuild == InitBuild /\ [][BuildSamplingStack]_vars

----------------------------------------------------------------------------
(* Properties of build_sampling_stack *)

Range(seq) == {seq[i] : i \in DOMAIN seq}

Returned == pc = "stack_built"
BuildEnded == pc \in {"stack_built", "failed"}

DataAvailability == GetBand(stack, "data_availability").content

(* The optional sources the build consults for a configuration, and        *)
(* whether the backend holds data of each for the AOI and window           *)
OptionalSources(c) ==
    (IF c.include_s1 THEN {"s1"} ELSE {}) \cup
    (IF c.include_emit THEN {"emit"} ELSE {}) \cup {"emag", "grace", "smap"}
EnabledSources(c) ==
    {"primary"} \cup (IF c.include_terrain THEN {"srtm"} ELSE {})
                \cup OptionalSources(c)
SourceId(c, g) ==
    CASE g = "primary" -> c.asset_id [] g = "srtm" -> SRTM [] g = "s1" -> S1_GRD
      [] g = "emit" -> EMIT [] g = "emag" -> EMAG2 [] g = "grace" -> GRACE
      [] g = "smap" -> SMAP
SourceAvailable(b, g) == b[g] = "data"

(* C1: for one configuration the band-name set of the returned stack is    *)
(* the same under every combination of optional-source outcomes (entry     *)
(* missing, collection empty, data present): it depends on the config only *)
ClaimedOutcomes == {"missing", "empty", "data", Untouched}
InClaimedOutcomes(b) ==
    \A g \in {"s1", "emit", "emag", "grace", "smap"} : b[g] \in ClaimedOutcomes
SchemaInvariance ==
    (Returned /\ InClaimedOutcomes(backend)) =>
        \A b2 \in Backends(config) :
            (InClaimedOutcomes(b2) /\ b2.primary = backend.primary) =>
                BandSet(build_sampling_stack(config, b2).stack) = BandSet(stack)

(* C2: an empty primary collection fails the build with a                  *)
(* SourceUnavailableError: no stack and no report are returned and the run *)
(* goes no further                                                         *)
PrimaryEmptyIsFatal ==
    (BuildEnded /\ backend.primary = "empty") =>
        /\ pc = "failed"
        /\ raised = "SourceUnavailableError"
        /\ stack = << >>
        /\ availability_reports = NoFunction

(* C3: data_availability lies in [0,1], is 1.0 when every enabled group    *)
(* including the primary source is available and 0.0 when none is          *)
DataAvailabilityRange ==
    Returned =>
        /\ HasBand(stack, "data_availability")
        /\ DataAvailability.den > 0
        /\ 0 <= DataAvailability.num
        /\ DataAvailability.num <= DataAvailability.den
        /\ (\A g \in EnabledSources(config) : SourceAvailable(backend, g))
              => DataAvailability.num = DataAvailability.den
        /\ (\A g \in EnabledSources(config) : ~SourceAvailable(backend, g))
              => DataAvailability.num = 0

(* C4: data_availability is the uniform mean of one flag per enabled       *)
(* group: as many flags are averaged as the report has entries, and the    *)
(* sum counts exactly the entries that are true                            *)
TrueEntries(report) == {k \in DOMAIN report : report[k]}
MeanOfRecordedFlags ==
    Returned =>
        /\ DOMAIN availability_reports
             = {SourceId(config, g) : g \in EnabledSources(config)}
        /\ Len(availability_images) = Cardinality(DOMAIN availability_reports)
        /\ DataAvailability.den = Cardinality(DOMAIN availability_reports)
        /\ DataAvailability.num = Cardinality(TrueEntries(availability_reports))

(* C5: a backend error while handling an optional source never leaves the  *)
(* build: the group is reported unavailable and a stack is still returned  *)
BackendError(outcome) == outcome \in {"probe_error", "size_error"}
OptionalErrorsRecovered ==
    (BuildEnded /\ backend.primary = "data") =>
        /\ raised = "none"
        /\ pc = "stack_built"
        /\ \A g \in OptionalSources(config) :
              BackendError(backend[g]) =>
                  /\ SourceId(config, g) \in DOMAIN availability_reports
                  /\ ~availability_reports[SourceId(config, g)]

(* C6: asset_exists is fail-closed: it never raises, returns a boolean,    *)
(* returns True only when the catalog lookup completed without error and   *)
(* False for every backend error                                           *)
AssetExistsFailClosed ==
    \A id \in DOMAIN probes :
        /\ probes[id].result.raised = "none"
        /\ probes[id].result.value \in BOOLEAN
        /\ probes[id].result.value => probes[id].completed
        /\ probes[id].lookup = "probe_error" => ~probes[id].result.value

AssetExistsWitness ==
    \E i, j \in DOMAIN probes :
        /\ probes[i].lookup = "probe_error" /\ ~probes[i].result.value
        /\ probes[j].lookup = "present" /\ probes[j].result.value

(* C10: with only indices and terrain enabled, the primary source          *)
(* non-empty and every other optional source absent at the backend, the    *)
(* band set is the base bands, the five indices, the three terrain bands   *)
(* and data_availability, and data_availability is 1.0                     *)
IndicesTerrainOnly ==
    /\ Returned
    /\ config.include_indices /\ config.include_terrain
    /\ ~config.include_s1 /\ ~config.include_emit
    /\ ~config.include_temporal_stats
    /\ backend.primary = "data" /\ backend.srtm = "data"
    /\ backend.emag = "missing" /\ backend.grace = "missing"
    /\ backend.smap = "missing"

IndicesTerrainExample ==
    IndicesTerrainOnly =>
        /\ BandSet(stack) =
              Range(config.bands)
              \cup {"NDVI", "NDWI", "ClayIndex", "IronOxideIndex", "SilicaIndex"}
              \cup {"elevation", "slope_norm", "aspect_norm"}
              \cup {"data_availability"}
        /\ DataAvailability.num = DataAvailability.den
        /\ DataAvailability.den > 0

IndicesTerrainWitness ==
    IndicesTerrainOnly /\ config.bands = DEFAULT_BANDS /\ Len(stack) = 18

----------------------------------------------------------------------------
(* resolve_aoi and sample_stack as steps of the run *)

GAUL_COUNTRIES == {"Philippines", "Malaysia"}
GAUL_UNITS == {"Northern Mindanao", "Davao Region"}

(* Features the boundary dataset of a level may hold *)
GaulUniverse(level) ==
    IF level = 0
    THEN { [fid |-> i, ADM0_NAME |-> k, ADM1_NAME |-> None, ADM2_NAME |-> None] :
             i \in 1..MaxFeatures, k \in GAUL_COUNTRIES }
    ELSE IF level = 1
    THEN { [fid |-> i, ADM0_NAME |-> k, ADM1_NAME |-> n, ADM2_NAME |-> None] :
             i \in 1..MaxFeatures, k \in GAUL_COUNTRIES, n \in GAUL_UNITS }
    ELSE { [fid |-> i, ADM0_NAME |-> k, ADM1_NAME |-> "Region X", ADM2_NAME |-> n] :
             i \in 1..MaxFeatures, k \in GAUL_COUNTRIES, n \in GAUL_UNITS }

AoiEnvs(c) ==
    IF c.geojson # None
    THEN { [NoEnv EXCEPT !.file_exists = x] : x \in BOOLEAN }
    ELSE IF Truthy(c.aoi_asset) THEN { NoEnv }
    ELSE { [NoEnv EXCEPT !.gaul = g] : g \in SUBSET GaulUniverse(c.aoi_level) }

ResolveAoi ==
    /\ pc = "start"
    /\ \E e \in AoiEnvs(config) :
        LET r == resolve_aoi(config, e)
        IN  /\ env' = e
            /\ raised' = r.raised
            /\ aoi' = r.aoi
            /\ calls' = calls \o r.calls
            /\ pc' = IF r.raised = "none" THEN "aoi_resolved" ELSE "failed"
    /\ UNCHANGED <<config, backend, stack, availability_reports,
                   availability_images, probes, df, files>>
    /\ UNCHANGED <<hybrid_vars, safe_vars>>

InitAoi ==
    /\ config \in AoiConfigs
    /\ pc = "start"
    /\ raised = "none"
    /\ backend = NoBackend
    /\ aoi = None
    /\ stack = << >>
    /\ availability_reports = NoFunction
    /\ availability_images = << >>
    /\ probes = NoFunction
    /\ df = NoFrame
    /\ env = NoEnv
    /\ calls = << >>
    /\ files = NoFunction
    /\ NoHybrid /\ NoSafeCall

SpecAoi == InitAoi /\ [][ResolveAoi]_vars

SampleStack ==
    /\ pc = "stack_built"
    /\ \E rows \in 0..config.sample_count :
        LET r == sample_stack(config, stack, rows)
        IN  /\ env' = [env EXCEPT !.rows = rows]
            /\ raised' = r.raised
            /\ df' = r.df
            /\ calls' = calls \o r.calls
            /\ pc' = IF r.raised = "none" THEN "sampled" ELSE "failed"
    /\ UNCHANGED <<config, backend, aoi, stack, availability_reports,
                   availability_images, probes, files>>
    /\ UNCHANGED <<hybrid_vars, safe_vars>>

(* The backend that serves data for every source the configuration uses *)
AllData(c) ==
    [primary |-> "data",
     srtm |-> IF c.include_terrain THEN "data" ELSE Untouched,
     s1 |-> IF c.include_s1 THEN "data" ELSE Untouched,
     emit |-> IF c.include_emit THEN "data" ELSE Untouched,
     emag |-> "data", grace |-> "data", smap |-> "data"]

SampleConfigs ==
    { [c EXCEPT !.sample_count = n] : c \in BuildConfigs, n \in 0..MaxSampleCount }

InitSample ==
    /\ config \in SampleConfigs
    /\ pc = "stack_built"
    /\ raised = "none"
    /\ backend = AllData(config)
    /\ aoi = ResolvedDefaultAoi
    /\ stack = build_sampling_stack(config, backend).stack
    /\ availability_reports = build_sampling_stack(config, backend).reports
    /\ availability_images = build_sampling_stack(config, backend).images
    /\ probes = build_sampling_stack(config, backend).probes
    /\ df = NoFrame
    /\ env = [NoEnv EXCEPT !.gaul = ResolvedDefaultAoi.features]
    /\ calls = << >>
    /\ files = NoFunction
    /\ NoHybrid /\ NoSafeCall

SpecSample == InitSample /\ [][SampleStack]_vars

----------------------------------------------------------------------------
(* ExportWriter and the whole `sample` command *)

WriteOutcomes == {"ok", "error"}

(* df.to_csv, then the getInfo requests of the metadata (mean of           *)
(* data_availability, band names, AOI area), then the metadata file        *)
write_outputs(c, frame, image, report, outcome) ==
    LET csv == Put(NoFunction, "csv", frame)
        metadata == [bands |-> BandNames(image), record_count |-> frame.rows,
                     assets_present |-> report]
    IN  IF outcome = "error"
        THEN [raised |-> "EEException", files |-> csv]
        ELSE [raised |-> "none", files |-> Put(csv, "metadata", metadata)]

WriteOutputs ==
    /\ pc = "sampled"
    /\ \E outcome \in WriteOutcomes :
        LET r == write_outputs(config, df, stack, availability_reports, outcome)
        IN  /\ files' = r.files
            /\ raised' = r.raised
            /\ calls' = Append(calls, Call("write", outcome))
            /\ pc' = IF r.raised = "none" THEN "done" ELSE "failed"
    /\ UNCHANGED <<config, backend, aoi, stack, availability_reports,
                   availability_images, probes, df, env>>
    /\ UNCHANGED <<hybrid_vars, safe_vars>>

(* Command lines of the whole run: one per AOI descriptor, with the        *)
(* Sentinel-1 and EMIT groups skipped                                      *)
RunConfigs ==
    { [c EXCEPT !.include_s1 = FALSE, !.include_emit = FALSE,
                !.include_terrain = t] :
        c \in { [DefaultConfig EXCEPT !.geojson = "aoi.geojson"],
                [DefaultConfig EXCEPT !.aoi_asset = "users/demo/aoi"],
                [DefaultConfig EXCEPT !.aoi_level = 0,
                                      !.aoi_name = "Philippines"] },
        t \in BOOLEAN }

Init ==
    /\ config \in RunConfigs
    /\ pc = "start"
    /\ raised = "none"
    /\ backend = NoBackend
    /\ aoi = None
    /\ stack = << >>
    /\ availability_reports = NoFunction
    /\ availability_images = << >>
    /\ probes = NoFunction
    /\ df = NoFrame
    /\ env = NoEnv
    /\ calls = << >>
    /\ files = NoFunction
    /\ NoHybrid /\ NoSafeCall

Next == ResolveAoi \/ BuildSamplingStack \/ SampleStack \/ WriteOutputs

Spec == Init /\ [][Next]_vars

----------------------------------------------------------------------------
(* Properties of resolve_aoi *)

AoiEnded == pc \in {"aoi_resolved", "failed"} /\ backend = NoBackend
Issued(op) == \E i \in DOMAIN calls : calls[i].op = op

(* Error taxonomy of the design and the Python exceptions that carry it *)
ConfigurationError == "FileNotFoundError"
NotFoundError == "ValueError"
EmptyResultError == "RuntimeError"

(* C7: AOI descriptors apply in strict precedence, first match wins: a     *)
(* configured local file is used, or fails with ConfigurationError when    *)
(* missing, without trying the asset or the administrative lookup; else a  *)
(* configured remote asset is returned verbatim without administrative     *)
(* lookup; only with neither is the administrative lookup performed        *)
AoiPrecedence ==
    AoiEnded =>
        /\ config.geojson # None =>
              /\ ~Issued("size")
              /\ env.file_exists =>
                    /\ raised = "none"
                    /\ aoi.provenance = "geojson" /\ aoi.ref = config.geojson
              /\ ~env.file_exists =>
                    /\ pc = "failed" /\ raised = ConfigurationError
                    /\ aoi = None
        /\ (config.geojson = None /\ Truthy(config.aoi_asset)) =>
              /\ ~Issued("size")
              /\ raised = "none"
              /\ aoi = [provenance |-> "asset", ref |-> config.aoi_asset,
                        features |-> {}]
        /\ (config.geojson = None /\ ~Truthy(config.aoi_asset)) =>
              /\ Issued("size")
              /\ raised = "none" => aoi.provenance = "gaul"

AoiPrecedenceWitness ==
    /\ AoiEnded
    /\ config.geojson # None /\ Truthy(config.aoi_asset)
    /\ ~env.file_exists /\ raised = ConfigurationError

(* C8 as claimed: in the administrative branch the set is filtered by name *)
(* and by parent country exactly when the level is > 0; an empty result    *)
(* fails with NotFoundError, otherwise all matches are returned            *)
AdminBranch ==
    AoiEnded /\ config.geojson = None /\ ~Truthy(config.aoi_asset)
ByName == FilterEq(env.gaul, GaulField(config.aoi_level), config.aoi_name)
AdminOutcome(expected) ==
    /\ expected = {} => (pc = "failed" /\ raised = NotFoundError)
    /\ expected # {} => (pc = "aoi_resolved" /\ raised = "none"
                          /\ aoi.features = expected)

AdminFilterByLevel ==
    AdminBranch =>
        AdminOutcome(IF config.aoi_level > 0
                     THEN FilterEq(ByName, "ADM0_NAME", config.aoi_country)
                     ELSE ByName)

(* C8 amended: the parent-country filter is applied exactly when the level *)
(* is > 0 and a non-empty parent-country name is configured                *)
AdminFilterByLevelAndCountry ==
    AdminBranch =>
        AdminOutcome(IF config.aoi_level > 0 /\ config.aoi_country # ""
                     THEN FilterEq(ByName, "ADM0_NAME", config.aoi_country)
                     ELSE ByName)

AdminFilterWitness ==
    /\ AdminBranch
    /\ config.aoi_level > 0 /\ config.aoi_country # ""
    /\ raised = "none" /\ Cardinality(aoi.features) > 1
    /\ aoi.features # ByName

----------------------------------------------------------------------------
(* Properties of sample_stack *)

SampleEnded == pc \in {"sampled", "failed"} /\ Issued("sample")
SampleRequests == {i \in DOMAIN calls : calls[i].op = "sample"}

----------------------------------------------------------------------------
(* Band order of the stack *)

NamesOf(seq) == [i \in DOMAIN seq |-> seq[i].name]
When(cond, seq) == IF cond THEN seq ELSE << >>

(* The declared schema of a configuration: the base bands, every enabled   *)
(* group in declaration order, data_availability last                      *)
DeclaredOrder(c) ==
    c.bands
    \o When(c.include_indices, NamesOf(compute_indices(<< >>)))
    \o When(c.include_temporal_stats, [i \in DOMAIN c.bands |-> StdDevName(c.bands[i])])
    \o When(c.include_terrain, NamesOf(terrain_features("data")))
    \o When(c.include_s1, << "S1_VV_minus_VH", "S1_quality" >>)
    \o When(c.include_emit, << "EMIT_mean" >>)
    \o << "EMAG2_norm", "GRACE_water", "SMAP_moisture", "data_availability" >>

(* C11: every returned stack lists the configured base bands first, then   *)
(* the bands of each enabled group in declaration order (indices, temporal *)
(* statistics, terrain, radar ratio, hyperspectral summary, magnetic       *)
(* anomaly, gravity/water-mass anomaly, soil moisture), and                *)
(* data_availability as the last band                                      *)
BandOrderDeclared ==
    Returned => BandNames(stack) = DeclaredOrder(config)

----------------------------------------------------------------------------
(* core/hybrid/hybrid_pipeline.py *)

(* A Python value is its type and the text str() gives for it; a text is   *)
(* the sequence of the pieces concatenated into it                         *)
PyValue(type, text) == [type |-> type, text |-> text]
PyStr(text) == PyValue("str", text)
Str(v) == PyStr(v.text)

DEFAULT_FALLBACK ==
    "Hybrid systems blend deterministic workflows with scoped agents to pair predictable execution with exploratory problem solving."

(* str(exc) of the exception a failed stage raises *)
Exc(stage) == "<" \o stage \o " exception>"

Reply(value, invoked) == [raised |-> "none", value |-> value, invoked |-> invoked]
Raise(exc, invoked) == [raised |-> exc, value |-> NoValue, invoked |-> invoked]

(* _fallback_pipeline(reason): the callable, and _inner(query) *)
fallback_pipeline(reason) ==
    [raised |-> "none", kind |-> "fallback", reason |-> reason,
     embeddings |-> None, vector_store |-> None,
     agent_executor |-> None, agent_error |-> None]

inner(reason, query) ==
    PyStr(<< "Hybrid pipeline fallback response.", "Query: ", query, "Reason: " >>
          \o reason \o << "Summary: ", DEFAULT_FALLBACK >>)

init_hybrid_system(s) ==
    IF s.imports # "ok"
    THEN fallback_pipeline(<< "dependency import failure: ", Exc("import") >>)
    ELSE IF s.embeddings # "ok" /\ s.fake # "importable"
    THEN fallback_pipeline(<< "failed to initialise embeddings: ", Exc("embeddings") >>)
    ELSE
    LET embeddings == IF s.embeddings = "ok" THEN "OpenAIEmbeddings"
                      ELSE "FakeEmbeddings"
        loaded == s.index_dir = "exists" /\ s.load = "ok"
        vector_error == IF s.index_dir = "exists" /\ s.load # "ok"
                        THEN Exc("load_local") ELSE None
        agent_error == IF s.agent = "ok" THEN None ELSE Exc("create_react_agent")
    IN  IF ~loaded /\ s.from_texts # "ok"
        THEN fallback_pipeline(
                 << "unable to build default FAISS index: ", Exc("from_texts") >>
                 \o (IF vector_error # None
                     THEN << "; previous load error: ", vector_error >>
                     ELSE << >>))
        ELSE IF s.workflow # "ok"
        THEN fallback_pipeline(<< "workflow unavailable: ", Exc("workflow") >>)
        ELSE [raised |-> "none", kind |-> "hybrid", reason |-> << >>,
              embeddings |-> embeddings,
              vector_store |-> IF loaded THEN "loaded" ELSE "default",
              agent_executor |-> IF s.agent = "ok" THEN "agent_executor" ELSE None,
              agent_error |-> agent_error]

uncertain_markers ==
    << "i don't know", "unclear", "insufficient", "cannot determine",
       "no relevant documents" >>

(* str.lower() on the pieces an answer is made of *)
Lower(piece) ==
    CASE piece = "I Don't Know" -> "i don't know"
      [] piece = "INSUFFICIENT" -> "insufficient"
      [] piece = "No Relevant Documents" -> "no relevant documents"
      [] piece = "Hybrid AI pairs workflows with agents." ->
             "hybrid ai pairs workflows with agents."
      [] piece = "None" -> "none"
      [] OTHER -> piece

is_uncertain_as_written(answer) ==
    \E m \in DOMAIN uncertain_markers :
        \E i \in DOMAIN answer : answer[i] = uncertain_markers[m]

is_uncertain(answer) ==
    LET lowered == [i \in DOMAIN answer |-> Lower(answer[i])]
    IN  \E m \in DOMAIN uncertain_markers :
            \E i \in DOMAIN lowered : lowered[i] = uncertain_markers[m]

(* a: what agent_executor.invoke does when it is called *)
build_agent_response(r, query, a) ==
    IF r.agent_executor = None
    THEN Reply(PyStr(<< "Fallback agent response. Query: ", query, ". Reason: ",
                        "agent unavailable: ", r.agent_error,
                        ". Summary: ", DEFAULT_FALLBACK >>), << >>)
    ELSE IF a.raised
    THEN Reply(PyStr(<< "Agent invocation failed: ", Exc("agent"), ". Query: ",
                        query, ". Summary: ", DEFAULT_FALLBACK >>), << "agent" >>)
    ELSE IF a.is_dict /\ a.messages = "dicts" /\ a.has_content
    THEN Reply(Str(a.content), << "agent" >>)
    ELSE Reply(PyStr(<< "Agent completed without structured response. Query: ",
                        query, "." >>), << "agent" >>)

AnswerOf(w) ==
    IF w.is_dict THEN (IF w.has_answer THEN Str(w.value) ELSE PyStr(<< >>))
    ELSE Str(w.value)

hybrid_pipeline_unguarded(r, query, w, a) ==
    IF w.raised THEN Raise(Exc("workflow invoke"), << "workflow" >>)
    ELSE LET answer == AnswerOf(w)
         IN  IF answer.text = << >> \/ is_uncertain(answer.text)
             THEN LET g == build_agent_response(r, query, a)
                  IN  [g EXCEPT !.invoked = << "workflow" >> \o g.invoked]
             ELSE Reply(answer, << "workflow" >>)

(* w: what workflow_chain.invoke does *)
hybrid_pipeline(r, query, w, a) ==
    IF w.raised
    THEN Reply(PyStr(<< "Workflow execution failed: ", Exc("workflow invoke"),
                        ". Query: ", query, ". Summary: ", DEFAULT_FALLBACK >>),
               << "workflow" >>)
    ELSE LET answer == AnswerOf(w)
         IN  IF answer.text = << >> \/ is_uncertain(answer.text)
             THEN LET g == build_agent_response(r, query, a)
                  IN  [g EXCEPT !.invoked = << "workflow" >> \o g.invoked]
             ELSE Reply(answer, << "workflow" >>)

(* calling the callable init_hybrid_system returned *)
Respond(r, query, w, a) ==
    IF r.kind = "fallback" THEN Reply(inner(r.reason, query), << >>)
    ELSE hybrid_pipeline(r, query, w, a)

----------------------------------------------------------------------------
(* Inputs and environment of the hybrid pipeline *)

MaxPieces == 2

QUERIES == {"Explain the purpose of hybrid AI systems.", ""}
PIECES == {"I Don't Know", "unclear", "INSUFFICIENT", "cannot determine",
           "No Relevant Documents", "Hybrid AI pairs workflows with agents."}
Texts(n) == UNION {[1..k -> PIECES] : k \in 0..n}

StageOutcomes == {"ok", "error"}

(* A stage the construction never reaches has no outcome; FakeEmbeddings   *)
(* is None when the guarded imports failed (line 49)                       *)
ReachedStages(s) ==
    LET imported == s.imports = "ok"
        embedded == imported /\ (s.embeddings = "ok" \/ s.fake = "importable")
        loaded == embedded /\ s.index_dir = "exists" /\ s.load = "ok"
        stored == embedded /\ (loaded \/ s.from_texts = "ok")
        At(cond, v) == IF cond THEN v ELSE Untouched
    IN  [imports |-> s.imports,
         fake |-> IF imported THEN s.fake ELSE "absent",
         embeddings |-> At(imported, s.embeddings),
         index_dir |-> At(embedded, s.index_dir),
         load |-> At(embedded /\ s.index_dir = "exists", s.load),
         from_texts |-> At(embedded /\ ~loaded, s.from_texts),
         workflow |-> At(stored, s.workflow),
         agent |-> At(stored, s.agent)]

HybridStages ==
    { ReachedStages(s) :
        s \in [imports : StageOutcomes, fake : {"importable", "absent"},
               embeddings : StageOutcomes, index_dir : {"exists", "absent"},
               load : StageOutcomes, from_texts : StageOutcomes,
               workflow : StageOutcomes, agent : StageOutcomes] }

(* workflow_chain.invoke: an exception, a dict with or without an "answer" *)
(* entry (a str or None), or a value that is not a dict                    *)
WorkflowRuns ==
    { [NoWorkflowRun EXCEPT !.ran = TRUE, !.raised = TRUE] }
    \cup { [ran |-> TRUE, raised |-> FALSE, is_dict |-> TRUE, has_answer |-> TRUE,
            value |-> v] :
            v \in {PyStr(t) : t \in Texts(MaxPieces)}
                  \cup {PyValue("NoneType", << "None" >>)} }
    \cup { [NoWorkflowRun EXCEPT !.ran = TRUE, !.is_dict = TRUE] }
    \cup { [ran |-> TRUE, raised |-> FALSE, is_dict |-> FALSE, has_answer |-> FALSE,
            value |-> PyStr(t)] : t \in Texts(1) }

(* agent_executor.invoke: an exception, a non-dict, or a dict whose         *)
(* "messages" entry is missing, an empty list, a list of message objects    *)
(* or a list of dicts, the last one with or without "content"              *)
AgentRuns ==
    { [NoAgentRun EXCEPT !.ran = TRUE, !.raised = TRUE],
      [NoAgentRun EXCEPT !.ran = TRUE] }
    \cup { [NoAgentRun EXCEPT !.ran = TRUE, !.is_dict = TRUE, !.messages = m] :
            m \in {"none", "empty", "objects", "dicts"} }
    \cup { [ran |-> TRUE, raised |-> FALSE, is_dict |-> TRUE, messages |-> "dicts",
            has_content |-> TRUE, content |-> v] :
            v \in {PyStr(t) : t \in Texts(1)}
                  \cup {PyValue("list", << "[{'type': 'text'}]" >>)} }

InitHybridSystem ==
    /\ responder.kind = "unset"
    /\ \E s \in HybridStages :
        /\ stages' = s
        /\ responder' = init_hybrid_system(s)
    /\ UNCHANGED <<exchange, run_vars, safe_vars>>

(* One call of the returned callable; it keeps no state between calls, so  *)
(* a behaviour follows a single call                                       *)
Ask ==
    /\ responder.kind \in {"fallback", "hybrid"} /\ responder.raised = "none"
    /\ ~exchange.asked
    /\ \E q \in QUERIES, w \in WorkflowRuns, a \in AgentRuns :
        LET reply == Respond(responder, q, w, a)
            invoked == {reply.invoked[i] : i \in DOMAIN reply.invoked}
        IN  exchange' = [asked |-> TRUE, query |-> q,
                         workflow |-> IF "workflow" \in invoked THEN w
                                      ELSE NoWorkflowRun,
                         agent |-> IF "agent" \in invoked THEN a ELSE NoAgentRun,
                         reply |-> reply]
    /\ UNCHANGED <<stages, responder, run_vars, safe_vars>>

NoRun ==
    /\ config = DefaultConfig
    /\ pc = "idle"
    /\ raised = "none"
    /\ backend = NoBackend
    /\ aoi = ResolvedDefaultAoi
    /\ stack = << >>
    /\ availability_reports = NoFunction
    /\ availability_images = << >>
    /\ probes = NoFunction
    /\ df = NoFrame
    /\ env = NoEnv
    /\ calls = << >>
    /\ files = NoFunction

InitHybrid == NoRun /\ NoHybrid /\ NoSafeCall

NextHybrid == InitHybridSystem \/ Ask

SpecHybrid == InitHybrid /\ [][NextHybrid]_vars

----------------------------------------------------------------------------
(* Properties of the hybrid pipeline *)

Asked == exchange.asked
Failed(stage) == stages[stage] = "error"
Opening(v) == IF v.text = << >> THEN "" ELSE v.text[1]
InnerHead == "Hybrid pipeline fallback response."
WorkflowFailedHead == "Workflow execution failed: "
AgentFallbackHead == "Fallback agent response. Query: "
AgentFailedHead == "Agent invocation failed: "
FallbackHeads == {InnerHead, WorkflowFailedHead, AgentFallbackHead, AgentFailedHead}

AnyStageFailed ==
    \/ \E st \in DOMAIN stages : Failed(st)
    \/ exchange.workflow.raised
    \/ exchange.agent.raised

ReturnsString ==
    /\ responder.raised = "none"
    /\ Asked => (exchange.reply.raised = "none" /\ exchange.reply.value.type = "str")

HasMarker(text) ==
    \E i \in DOMAIN text : Lower(text[i]) \in Range(uncertain_markers)
WorkflowAnswered == exchange.workflow.ran /\ ~exchange.workflow.raised
EscalationNeeded ==
    /\ WorkflowAnswered
    /\ \/ AnswerOf(exchange.workflow).text = << >>
       \/ HasMarker(AnswerOf(exchange.workflow).text)
AgentInvoked == "agent" \in Range(exchange.reply.invoked)

FatalStageFailed ==
    \/ Failed("imports")
    \/ Failed("embeddings") /\ stages.fake = "absent"
    \/ Failed("from_texts")
    \/ Failed("workflow")

AgentOnDemand ==
    Asked =>
        /\ AgentInvoked <=> (stages.workflow = "ok" /\ EscalationNeeded)
        /\ (WorkflowAnswered /\ ~EscalationNeeded) =>
               (exchange.reply.value = AnswerOf(exchange.workflow) /\ ~AgentInvoked)
        /\ stages.workflow # "ok" => ~AgentInvoked

(* C17: the agent is invoked iff the workflow chain was built, its         *)
(* invocation succeeded, its answer is empty or holds an uncertainty       *)
(* marker in any case, and the agent was constructed; when the agent was   *)
(* not constructed such an answer gives the agent-fallback text; another   *)
(* answer is returned unchanged without the agent; no workflow chain, no   *)
(* agent invocation                                                        *)
AgentOnDemandWhenConstructed ==
    Asked =>
        /\ AgentInvoked <=>
               (stages.workflow = "ok" /\ EscalationNeeded /\ stages.agent = "ok")
        /\ (EscalationNeeded /\ stages.agent # "ok") =>
               Opening(exchange.reply.value) = AgentFallbackHead
        /\ (WorkflowAnswered /\ ~EscalationNeeded) =>
               (exchange.reply.value = AnswerOf(exchange.workflow) /\ ~AgentInvoked)
        /\ stages.workflow # "ok" => ~AgentInvoked

AgentOnDemandWitness ==
    /\ Asked /\ EscalationNeeded /\ stages.agent = "error"
    /\ ~is_uncertain_as_written(AnswerOf(exchange.workflow).text)
    /\ AnswerOf(exchange.workflow).text # << >>
    /\ ~AgentInvoked

----------------------------------------------------------------------------
(* Properties of the whole run *)

ResolveRan == pc # "start"
BuildRan == backend.primary # Untouched
SampleRan == Issued("sample")
WriteRan == Issued("write")
Requests(op) == {i \in DOMAIN calls : calls[i].op = op}
NothingWritten == ~WriteRan /\ files = NoFunction
PrimaryUnavailable == backend.primary \in {"empty", "error"}

(* C13: a run executes resolve_aoi, build_sampling_stack, sample_stack and *)
(* write_outputs at most once each and in that order; when the AOI is not  *)
(* resolvable, the primary source is unavailable or the sample is empty,   *)
(* the run has aborted with an exception, no later step has run and no     *)
(* CSV or metadata file is written                                         *)
RunAbortsOnFailure ==
    /\ Cardinality(Requests("sample")) <= 1
    /\ Cardinality(Requests("write")) <= 1
    /\ WriteRan => SampleRan
    /\ SampleRan => BuildRan
    /\ BuildRan => ResolveRan
    /\ (ResolveRan /\ ~BuildRan /\ pc = "failed") =>
           (raised # "none" /\ ~SampleRan /\ NothingWritten)
    /\ PrimaryUnavailable =>
           (pc = "failed" /\ raised # "none" /\ ~SampleRan /\ NothingWritten)
    /\ (SampleRan /\ env.rows = 0) =>
           (pc = "failed" /\ raised # "none" /\ NothingWritten)

----------------------------------------------------------------------------
(* safe_normalized_difference and safe_ratio on a bare image *)

SAFE_BANDS == {"B2", "B4", "B8", "B11"}
OUTPUT_NAMES == {"NDVI", "IronOxideIndex"}

(* an image that holds exactly the bands of `present`, in the asset's order *)
ImageOf(present) ==
    LET Keep(b) == b \in present
        names == SelectSeq(DEFAULT_BANDS, Keep)
    IN  [i \in DOMAIN names |-> Band(names[i], Content("median"))]

SafeArgs ==
    { [image |-> ImageOf(present), first |-> a, second |-> b, name |-> n] :
        present \in SUBSET SAFE_BANDS, a \in SAFE_BANDS, b \in SAFE_BANDS,
        n \in OUTPUT_NAMES }

SafeNormalizedDifference ==
    /\ safe_result.op = None
    /\ safe_result' =
           [op |-> "safe_normalized_difference",
            image |-> << safe_normalized_difference(
                             safe_args.image,
                             << safe_args.first, safe_args.second >>,
                             safe_args.name) >>]
    /\ UNCHANGED <<safe_args, run_vars, hybrid_vars>>

SafeRatio ==
    /\ safe_result.op = None
    /\ safe_result' =
           [op |-> "safe_ratio",
            image |-> << safe_ratio(safe_args.image, safe_args.first,
                                    safe_args.second, safe_args.name) >>]
    /\ UNCHANGED <<safe_args, run_vars, hybrid_vars>>

InitSafe ==
    /\ NoRun /\ NoHybrid
    /\ safe_args \in SafeArgs
    /\ safe_result = NoSafeResult

NextSafe == SafeNormalizedDifference \/ SafeRatio

SpecSafe == InitSafe /\ [][NextSafe]_vars

InputsPresent ==
    /\ HasBand(safe_args.image, safe_args.first)
    /\ HasBand(safe_args.image, safe_args.second)

(* C14: safe_ratio and safe_normalized_difference return a single band     *)
(* with the requested output name: the constant 0 when at least one of the *)
(* two input bands is absent from the image, the rescaled result when both *)
(* are present                                                             *)
SafeOpsNamedBand ==
    safe_result.op # None =>
        /\ Len(safe_result.image) = 1
        /\ safe_result.image[1].name = safe_args.name
        /\ ~InputsPresent => safe_result.image[1].content = Const(0, 1)
        /\ InputsPresent =>
               safe_result.image[1].content =
                   Content(IF safe_result.op = "safe_ratio" THEN "ratio01"
                           ELSE "nd01")

SafeOpsWitness ==
    /\ safe_result.op = "safe_ratio"
    /\ HasBand(safe_args.image, safe_args.first)
    /\ ~HasBand(safe_args.image, safe_args.second)
    /\ safe_result.image = << Band(safe_args.name, Const(0, 1)) >>

----------------------------------------------------------------------------
(* Probes and flags of the optional groups *)

ProbedGroups(c) ==
    (IF c.include_terrain THEN {"srtm"} ELSE {}) \cup OptionalSources(c)
TerrainNames == {"elevation", "slope_norm", "aspect_norm"}

(* C16: for every enabled optional group the build probes the group's      *)
(* source, and the recorded flag is true only if the source holds data;    *)
(* with the elevation source absent at the backend the terrain entry of    *)
(* the report is false and the terrain bands are constant defaults         *)
FlagsFollowProbes ==
    Returned =>
        /\ \A g \in ProbedGroups(config) :
              /\ SourceId(config, g) \in DOMAIN probes
              /\ availability_reports[SourceId(config, g)] =>
                     SourceAvailable(backend, g)
        /\ (config.include_terrain /\ backend.srtm = "missing") =>
              /\ ~availability_reports[SRTM]
              /\ \A n \in TerrainNames : GetBand(stack, n).content.kind = "const"

(* C18: the Sentinel-1 and EMIT groups give the same band names whether    *)
(* the source is present or not, and the reported availability agrees with *)
(* the bands: when it is false S1_quality is 0 and EMIT_mean is the        *)
(* constant 0, and S1_quality is 1 exactly when it is true                 *)
RadarAndEmitAgree ==
    Returned =>
        /\ config.include_s1 =>
              /\ HasBand(stack, "S1_VV_minus_VH") /\ HasBand(stack, "S1_quality")
              /\ availability_reports[S1_GRD] <=>
                     GetBand(stack, "S1_quality").content = Const(1, 1)
              /\ ~availability_reports[S1_GRD] =>
                     GetBand(stack, "S1_quality").content = Const(0, 1)
        /\ config.include_emit =>
              /\ HasBand(stack, "EMIT_mean")
              /\ ~availability_reports[EMIT] =>
                     GetBand(stack, "EMIT_mean").content = Const(0, 1)
        /\ ~config.include_s1 =>
              (~HasBand(stack, "S1_VV_minus_VH") /\ ~HasBand(stack, "S1_quality"))
        /\ ~config.include_emit => ~HasBand(stack, "EMIT_mean")

RadarAndEmitWitness ==
    /\ Returned /\ config.include_s1 /\ config.include_emit
    /\ backend.s1 = "empty" /\ backend.emit = "missing"
    /\ ~availability_reports[S1_GRD] /\ ~availability_reports[EMIT]
    /\ GetBand(stack, "S1_quality").content = Const(0, 1)
    /\ GetBand(stack, "EMIT_mean").content = Const(0, 1)

====
